---- MODULE Spec2Model ----
(***************************************************************************)
(* A model of the training-data pipeline of lc0: the canonical transform   *)
(* selector and the position encoder (neural/encoder.cc), the V6 training  *)
(* record with its reader and writer (trainingdata/), the drift correction *)
(* of the outcome pair and the rescoring loop that produces records.       *)
(*                                                                         *)
(* A 64-bit mask is modelled as the set of its set bits, a subset of       *)
(* 0..63: bit i of the mask is square i, byte r of the mask is row r and   *)
(* bit c of that byte is column c, so square = 8 * row + column.  Unsigned *)
(* comparison of two masks is decided by their highest differing bit.      *)
(***************************************************************************)
EXTENDS Integers, Sequences, FiniteSets, TLC

VARIABLES
  pc,          \* where the modelled run stands
  board,       \* the ChessBoard handed to ChooseTransform
  transform,   \* the value ChooseTransform returned
  drift,       \* DriftCorrect: the pair passed in and the pair left in *q, *d
  reader,      \* TrainingDataReader: the stream behind fin_ and the reads made
  session,     \* V6TrainingDataArray: training_data_ and what the writer got
  enc,         \* EncodePositionForNN: its arguments and what it returned
  rescore,     \* ProcessFile: the file, the records written, a decoded record
  status,      \* SendTournament: the TournamentInfo passed and the line sent
  loop,        \* RescoreLoop::RunLoop: the files, the threads, what was done
  tour,        \* SelfPlayTournament and the threads that call into it
  book         \* SelfPlayTournament's constructor: the screening of openings

vars == <<pc, board, transform, drift, reader, session, enc, rescore, status,
          loop, tour, book>>

-----------------------------------------------------------------------------
(* Bounds of the model. *)

\* Number of pieces on the board besides the two kings.
MaxExtra == 2

\* float is modelled as binary floating point with a significand of MantBits
\* bits, rounding to nearest, ties to even; a value is held as an integer
\* number of units of 2^-FracBits.
MantBits == 4
FracBits == 8

\* Number of whole records in a stream that is read.
MaxRecords == 3

\* Number of Add calls made on one game session.
MaxAdds == 4

\* Number of positions in a history handed to the encoder.
MaxHistory == 3

\* Number of games in a file that is rescored.
MaxGames == 2

\* Largest count in one cell of the results table of a status line.
MaxCount == 2

\* Number of files in the input directory, and of threads that rescore.
MaxFiles == 3
MaxThreads == 2

\* The tournament: the largest parallelism and number of games configured,
\* the number of CmdStop commands, and of calls of StartAsync besides the
\* one RunBlocking makes, and of calls of Wait besides those of RunBlocking,
\* CmdStop and the destructor.
MaxParallelism == 2
MaxTotalGames == 4
MaxStops == 2
MaxDirectStarts == 1
MaxDirectWaits == 1

\* The opening book: the largest number of full batches and of openings
\* beyond the last full batch.
MaxFullBatches == 2
MaxRemainder == 1

-----------------------------------------------------------------------------
(* Each specification below runs one part of the program; the variables of
   the other parts rest at these values. *)

NoBoard == "noboard"
NoDrift == [q_in |-> 0, d_in |-> 0, q |-> 0, d |-> 0, repaired |-> FALSE]

NoReader == [bytes |-> 0, damaged |-> FALSE, pos |-> 0, reads |-> <<>>,
             threw |-> FALSE]
NoSession == [adds |-> <<>>, training_data_ |-> <<>>, written |-> <<>>,
              write_calls |-> 0]

NoEncodeResult ==
  [threw |-> FALSE, planes |-> <<>>, populated |-> 0, transform |-> 0,
   out_written |-> FALSE]
NoEnc == [input_format |-> 0, history |-> <<>>, history_planes |-> 0,
          fill_empty_history |-> "NO", result |-> NoEncodeResult]
NoRescore == [file |-> [readable |-> FALSE, writable |-> FALSE,
                        games |-> <<>>],
              status |-> "idle", written |-> <<>>, decoded_of |-> 0,
              decoded |-> <<>>]

NoStatus == [info |-> [results |-> <<<<0, 0>>, <<0, 0>>, <<0, 0>>>>,
                        finished |-> FALSE],
             sent |-> <<>>]
NoLoop == [files |-> <<>>, threads |-> 0, next |-> <<>>, processed |-> {},
           skipped |-> {}, caught |-> {}, terminated |-> FALSE,
           visits |-> {}, writers |-> {}]
NoTour == [kParallelism |-> 0, mode |-> "none"]
NoBook == [openings |-> 0, at |-> "none"]

transformVars == <<board, transform>>
driftVars == <<drift>>
readerVars == <<reader>>
sessionVars == <<session>>
encVars == <<enc>>
rescoreVars == <<rescore>>
statusVars == <<status>>
loopVars == <<loop>>
tourVars == <<tour>>
bookVars == <<book>>
laterVars == <<status, loop, tour, book>>
earlierVars == <<board, transform, drift, reader, session, enc, rescore>>

IdleTransform == board = NoBoard /\ transform = 0
IdleDrift == drift = NoDrift
IdleReader == reader = NoReader
IdleSession == session = NoSession
IdleEnc == enc = NoEnc
IdleRescore == rescore = NoRescore
IdleStatus == status = NoStatus
IdleLoop == loop = NoLoop
IdleTour == tour = NoTour
IdleBook == book = NoBook
IdleLater == IdleStatus /\ IdleLoop /\ IdleTour /\ IdleBook
IdleEarlier ==
  /\ IdleTransform /\ IdleDrift /\ IdleReader
  /\ IdleSession /\ IdleEnc /\ IdleRescore

-----------------------------------------------------------------------------
(* Bit-plane primitives. *)

Squares == 0..63

Row(s) == s \div 8
Col(s) == s % 8

Pow2(n) == IF n = 0 THEN 1 ELSE 2 ^ n

\* The mask whose eight bytes are given most significant byte first, as a
\* hexadecimal constant of the source is written.
MaskOf(bytes) ==
  {8 * (8 - i) + c : <<i, c>> \in
     {p \in (1..8) \X (0..7) : (bytes[p[1]] \div Pow2(p[2])) % 2 = 1}}

AllOnes == Squares

MinOf(S) == CHOOSE x \in S : \A y \in S : x <= y

\* Reverses the order of the bits inside each byte: column c becomes 7 - c.
ReverseBitsInBytes(v) == {8 * Row(s) + (7 - Col(s)) : s \in v}

\* Reverses the order of the bytes: row r becomes 7 - r.
ReverseBytesInBytes(v) == {8 * (7 - Row(s)) + Col(s) : s \in v}

\* Transposes across the diagonal that connects bit 7 to bit 56: the square
\* (r, c) becomes (7 - c, 7 - r).
TransposeBitsInBytes(v) == {8 * (7 - Col(s)) + (7 - Row(s)) : s \in v}

MaxBit(v) == CHOOSE s \in v : \A t \in v : t <= s

\* a < b as unsigned 64-bit integers.
Less64(a, b) ==
  LET diff == (a \ b) \cup (b \ a)
  IN  diff # {} /\ MaxBit(diff) \in b

LessEq64(a, b) == a = b \/ Less64(a, b)

\* Applies a 3-bit transform to a mask: bit0, then bit1, then bit2.
ApplyTransform(v, t) ==
  LET v1 == IF t % 2 = 1 THEN ReverseBitsInBytes(v) ELSE v
      v2 == IF (t \div 2) % 2 = 1 THEN ReverseBytesInBytes(v1) ELSE v1
  IN  IF (t \div 4) % 2 = 1 THEN TransposeBitsInBytes(v2) ELSE v2

-----------------------------------------------------------------------------
(* float arithmetic. *)

Abs(n) == IF n < 0 THEN -n ELSE n
Min(a, b) == IF a < b THEN a ELSE b

\* 1.0f in units.
One == Pow2(FracBits)

\* The spacing of the float values in [1, 2).
Ulp1 == Pow2(FracBits - MantBits + 1)

RECURSIVE BitLen(_)
BitLen(n) == IF n = 0 THEN 0 ELSE 1 + BitLen(n \div 2)

\* The spacing of the float values around the magnitude a.
Spacing(a) == IF BitLen(a) <= MantBits THEN 1 ELSE Pow2(BitLen(a) - MantBits)

Representable(n) == Abs(n) % Spacing(Abs(n)) = 0

\* The float nearest to the exact value n, ties to the even significand.
RoundMagnitude(a) ==
  LET step == Spacing(a)
      lo == (a \div step) * step
      r == a - lo
  IN  IF 2 * r < step THEN lo
      ELSE IF 2 * r > step THEN lo + step
      ELSE IF (lo \div step) % 2 = 0 THEN lo ELSE lo + step

FRound(n) == IF n < 0 THEN -RoundMagnitude(-n) ELSE RoundMagnitude(n)

-----------------------------------------------------------------------------
(* DriftCorrect.  Its CERR lines write a diagnostic and change neither *q
   nor *d; they are left out. *)

\* float w = (1.0f - *d + *q) / 2.0f: the pair is kept to even numbers of
\* units, so the halving is exact, as it is for float short of underflow.
ImpliedW(q, d) == FRound(FRound(One - d) + q) \div 2

\* float l = w - *q.
ImpliedL(q, d) == FRound(ImpliedW(q, d) - q)

ClampQ(q) == IF q > One THEN One ELSE IF q < -One THEN -One ELSE q

ClampD(d) == IF d > One THEN One ELSE IF d < 0 THEN 0 ELSE d

DriftCorrectHalfRepair(q0, d0) ==
  LET q1 == ClampQ(q0)
      d1 == ClampD(d0)
      w == ImpliedW(q1, d1)
      l == ImpliedL(q1, d1)
  IN  IF w < 0 \/ l < 0
      THEN LET d2 == FRound(d1 + Min(w, l))
           IN  [q |-> q1, d |-> IF d2 < 0 THEN 0 ELSE d2, repaired |-> TRUE]
      ELSE [q |-> q1, d |-> d1, repaired |-> FALSE]

DriftCorrect(q0, d0) ==
  LET q1 == ClampQ(q0)
      d1 == ClampD(d0)
      w == ImpliedW(q1, d1)
      l == ImpliedL(q1, d1)
  IN  IF w < 0 \/ l < 0
      THEN LET d2 == FRound(d1 + 2 * Min(w, l))
           IN  [q |-> q1, d |-> IF d2 < 0 THEN 0 ELSE d2, repaired |-> TRUE]
      ELSE [q |-> q1, d |-> d1, repaired |-> FALSE]

\* The pairs DriftCorrect is applied to: the floats of magnitude up to 1.5
\* that are an even number of units.
DriftInputs ==
  {n \in -(One + One \div 2)..(One + One \div 2) :
     n % 2 = 0 /\ Representable(n)}

InitDrift ==
  /\ pc = "drift"
  /\ IdleTransform /\ IdleReader /\ IdleSession /\ IdleEnc /\ IdleRescore
  /\ IdleLater
  /\ \E q0 \in DriftInputs, d0 \in DriftInputs :
       drift = [q_in |-> q0, d_in |-> d0, q |-> q0, d |-> d0,
                repaired |-> FALSE]

CallDriftCorrect ==
  /\ pc = "drift"
  /\ pc' = "drifted"
  /\ LET r == DriftCorrect(drift.q, drift.d)
     IN  drift' = [drift EXCEPT !.q = r.q, !.d = r.d,
                                !.repaired = r.repaired]
  /\ UNCHANGED <<laterVars, transformVars, readerVars, sessionVars, encVars,
                 rescoreVars>>

NextDrift == CallDriftCorrect

SpecDrift == InitDrift /\ [][NextDrift]_vars

-----------------------------------------------------------------------------
(* The V6 training record and its reader. *)

\* #pragma pack(push, 1): the alignment the fields are packed to.
PackAlignment == 1

\* The fields of V6TrainingData in declaration order: name, size of one
\* element in bytes, number of elements.
V6TrainingDataFields112 ==
  <<<<"version", 4, 1>>, <<"input_format", 4, 1>>, <<"planes", 8, 112>>,
    <<"result_q", 4, 1>>, <<"result_d", 4, 1>>, <<"p1idx", 4, 1>>,
    <<"p2idx", 4, 1>>>>

V6TrainingDataFields ==
  <<<<"version", 4, 1>>, <<"input_format", 4, 1>>, <<"planes", 8, 110>>,
    <<"result_q", 4, 1>>, <<"result_d", 4, 1>>, <<"p1idx", 4, 1>>,
    <<"p2idx", 4, 1>>>>

AlignUp(n, a) == ((n + a - 1) \div a) * a

\* A field is aligned to its element size, capped by the pack alignment.
FieldAlignment(f) == Min(f[2], PackAlignment)

\* Offset of field i: the end of the field before it, aligned.
RECURSIVE FieldOffset(_, _)
FieldOffset(fields, i) ==
  IF i = 1 THEN 0
  ELSE AlignUp(FieldOffset(fields, i - 1)
                 + fields[i - 1][2] * fields[i - 1][3],
               FieldAlignment(fields[i]))

FieldEnd(fields, i) == FieldOffset(fields, i) + fields[i][2] * fields[i][3]

RECURSIVE MaxAlignment(_)
MaxAlignment(fields) ==
  IF fields = <<>> THEN 1
  ELSE LET m == MaxAlignment(Tail(fields))
           a == FieldAlignment(Head(fields))
       IN  IF a > m THEN a ELSE m

\* sizeof: the end of the last field, rounded to the alignment of the struct.
SizeOf(fields) == AlignUp(FieldEnd(fields, Len(fields)), MaxAlignment(fields))

SizeOfV6TrainingData == SizeOf(V6TrainingDataFields)

\* gzread(fin_, data, len) on a stream with `left` bytes to come: the bytes
\* read, fewer than len at the end of the stream, -1 on a damaged stream.
GzRead(left, len, damaged) ==
  IF damaged THEN -1 ELSE Min(left, len)

ReadChunkShortIsTrue(r) ==
  LET read_size == GzRead(r.bytes - r.pos, SizeOfV6TrainingData, r.damaged)
  IN  IF read_size < 0
      THEN [r EXCEPT !.threw = TRUE]
      ELSE [r EXCEPT !.pos = r.pos + read_size,
                     !.reads = Append(r.reads,
                                 [start |-> r.pos, size |-> read_size,
                                  ok |-> read_size > 0])]

\* TrainingDataReader::ReadChunk: the reader after the call.
ReadChunk(r) ==
  LET read_size == GzRead(r.bytes - r.pos, SizeOfV6TrainingData, r.damaged)
  IN  IF read_size < 0
      THEN [r EXCEPT !.threw = TRUE]
      ELSE [r EXCEPT !.pos = r.pos + read_size,
                     !.reads = Append(r.reads,
                                 [start |-> r.pos, size |-> read_size,
                                  ok |-> read_size = SizeOfV6TrainingData])]

\* A stream of up to MaxRecords whole records and a tail shorter than one.
InitReader ==
  /\ pc = "reading"
  /\ IdleTransform /\ IdleDrift /\ IdleSession /\ IdleEnc /\ IdleRescore
  /\ IdleLater
  /\ \E k \in 0..MaxRecords, tail \in 0..(SizeOfV6TrainingData - 1),
        bad \in BOOLEAN :
       reader = [bytes |-> k * SizeOfV6TrainingData + tail, damaged |-> bad,
                 pos |-> 0, reads |-> <<>>, threw |-> FALSE]

\* The caller reads until ReadChunk has returned false twice or thrown.
CallReadChunk ==
  /\ pc = "reading"
  /\ ~reader.threw
  /\ Cardinality({i \in DOMAIN reader.reads : ~reader.reads[i].ok}) < 2
  /\ reader' = ReadChunk(reader)
  /\ UNCHANGED <<laterVars, pc, transformVars, driftVars, sessionVars, encVars,
                 rescoreVars>>

NextReader == CallReadChunk

SpecReader == InitReader /\ [][NextReader]_vars

-----------------------------------------------------------------------------
(* The game session: V6TrainingDataArray. *)

\* The positions Add is called with.
SessionPositions == {"p1", "p2", "p3"}

\* V6TrainingDataArray::Add: the body is empty, training_data_ is left as
\* it is.
Add(sess, position) == [sess EXCEPT !.adds = Append(sess.adds, position)]

\* V6TrainingDataArray::Write: returns when training_data_ is empty, and has
\* nothing after that test.
Write(sess) ==
  IF sess.training_data_ = <<>>
  THEN [sess EXCEPT !.write_calls = sess.write_calls + 1]
  ELSE [sess EXCEPT !.write_calls = sess.write_calls + 1]

InitSession ==
  /\ pc = "session"
  /\ IdleTransform /\ IdleDrift /\ IdleReader /\ IdleEnc /\ IdleRescore
  /\ IdleLater
  /\ session = NoSession

CallAdd ==
  /\ pc = "session"
  /\ session.write_calls = 0
  /\ Len(session.adds) < MaxAdds
  /\ \E position \in SessionPositions : session' = Add(session, position)
  /\ UNCHANGED <<laterVars, pc, transformVars, driftVars, readerVars, encVars,
                 rescoreVars>>

CallWrite ==
  /\ pc = "session"
  /\ session.write_calls = 0
  /\ session' = Write(session)
  /\ UNCHANGED <<laterVars, pc, transformVars, driftVars, readerVars, encVars,
                 rescoreVars>>

NextSession == CallAdd \/ CallWrite

SpecSession == InitSession /\ [][NextSession]_vars

-----------------------------------------------------------------------------
(* The board, as ChooseTransform and the encoder read it. *)

\* Castling rights, and the files of the castling rooks (a and h).
NoCastlings ==
  [we_can_000 |-> FALSE, we_can_00 |-> FALSE,
   they_can_000 |-> FALSE, they_can_00 |-> FALSE,
   queenside_rook |-> 0, kingside_rook |-> 7]

AllCastlings == [we_can_000 : BOOLEAN, we_can_00 : BOOLEAN,
                 they_can_000 : BOOLEAN, they_can_00 : BOOLEAN,
                 queenside_rook : {0}, kingside_rook : {7}]

no_legal_castle(c) ==
  ~(c.we_can_000 \/ c.we_can_00 \/ c.they_can_000 \/ c.they_can_00)

PieceTypes == {"pawn", "knight", "bishop", "rook", "queen", "king"}

\* A placement is a set of <<square, side, type>> with one piece per square.
TypeMask(pieces, type) == {p[1] : p \in {q \in pieces : q[3] = type}}
SideMask(pieces, side) == {p[1] : p \in {q \in pieces : q[2] = side}}

\* The board seen from the side to move: `ours` are its pieces, en_passant
\* is the en-passant flag on row 0 or row 7, flipped says black is to move.
FullBoard(pieces, castlings, en_passant, flipped) ==
  [ours       |-> SideMask(pieces, "ours"),
   theirs     |-> SideMask(pieces, "theirs"),
   pawns      |-> TypeMask(pieces, "pawn"),
   knights    |-> TypeMask(pieces, "knight"),
   bishops    |-> TypeMask(pieces, "bishop"),
   rooks      |-> TypeMask(pieces, "rook"),
   queens     |-> TypeMask(pieces, "queen"),
   kings      |-> TypeMask(pieces, "king"),
   castlings  |-> castlings,
   en_passant |-> en_passant,
   flipped    |-> flipped]

MakeBoard(pieces, castlings) == FullBoard(pieces, castlings, {}, FALSE)

\* ChessBoard::Mirror: the same board seen from the other side.
Mirror(b) ==
  [ours       |-> ReverseBytesInBytes(b.theirs),
   theirs     |-> ReverseBytesInBytes(b.ours),
   pawns      |-> ReverseBytesInBytes(b.pawns),
   knights    |-> ReverseBytesInBytes(b.knights),
   bishops    |-> ReverseBytesInBytes(b.bishops),
   rooks      |-> ReverseBytesInBytes(b.rooks),
   queens     |-> ReverseBytesInBytes(b.queens),
   kings      |-> ReverseBytesInBytes(b.kings),
   castlings  |-> [b.castlings EXCEPT
                     !.we_can_000 = b.castlings.they_can_000,
                     !.we_can_00 = b.castlings.they_can_00,
                     !.they_can_000 = b.castlings.we_can_000,
                     !.they_can_00 = b.castlings.we_can_00],
   en_passant |-> ReverseBytesInBytes(b.en_passant),
   flipped    |-> ~b.flipped]

\* A Position: the board of the side to move, the repetition count and the
\* no-capture-no-pawn ply counter.
GetBoard(position) == position.board
GetThemBoard(position) == Mirror(position.board)
GetRepetitions(position) == position.repetitions
GetNoCaptureNoPawnPly(position) == position.rule50

\* ChessBoard::kStartposBoard.
StartposPieces ==
  {<<s, "ours", "pawn">> : s \in 8..15}
  \cup {<<s, "theirs", "pawn">> : s \in 48..55}
  \cup {<<s, "ours", "rook">> : s \in {0, 7}}
  \cup {<<s, "ours", "knight">> : s \in {1, 6}}
  \cup {<<s, "ours", "bishop">> : s \in {2, 5}}
  \cup {<<3, "ours", "queen">>, <<4, "ours", "king">>}
  \cup {<<s, "theirs", "rook">> : s \in {56, 63}}
  \cup {<<s, "theirs", "knight">> : s \in {57, 62}}
  \cup {<<s, "theirs", "bishop">> : s \in {58, 61}}
  \cup {<<59, "theirs", "queen">>, <<60, "theirs", "king">>}

StartposCastlings ==
  [we_can_000 |-> TRUE, we_can_00 |-> TRUE,
   they_can_000 |-> TRUE, they_can_00 |-> TRUE,
   queenside_rook |-> 0, kingside_rook |-> 7]

kStartposBoard == FullBoard(StartposPieces, StartposCastlings, {}, FALSE)

-----------------------------------------------------------------------------
(* The transform selector. *)

LeftHalf == MaskOf(<<\h0F, \h0F, \h0F, \h0F, \h0F, \h0F, \h0F, \h0F>>)
TopHalf == MaskOf(<<\hFF, \hFF, \hFF, \hFF, \h00, \h00, \h00, \h00>>)
OffDiagonalTriangle == MaskOf(<<0, 0, 0, 0, \hE0, \hC0, \h80, \h00>>)
QuadrantDiagonal == MaskOf(<<0, 0, 0, 0, \h10, \h20, \h40, \h80>>)

CompareTransposingFlipped(value, initial_transform) ==
  LET v1 == IF initial_transform % 2 # 0 THEN ReverseBitsInBytes(value)
            ELSE value
      v2 == IF (initial_transform \div 2) % 2 # 0 THEN ReverseBytesInBytes(v1)
            ELSE v1
      alternative == TransposeBitsInBytes(v2)
  IN  IF Less64(v2, alternative) THEN 1
      ELSE IF Less64(alternative, v2) THEN -1
      ELSE 0

CompareTransposing(value, initial_transform) ==
  LET v1 == IF initial_transform % 2 # 0 THEN ReverseBitsInBytes(value)
            ELSE value
      v2 == IF (initial_transform \div 2) % 2 # 0 THEN ReverseBytesInBytes(v1)
            ELSE v1
      alternative == TransposeBitsInBytes(v2)
  IN  IF Less64(v2, alternative) THEN -1
      ELSE IF Less64(alternative, v2) THEN 1
      ELSE 0

TieBreakMasksKingsFirst(b) ==
  <<b.kings, b.ours \cup b.theirs, b.ours, b.queens, b.rooks, b.knights,
    b.bishops>>

\* The masks the tie-break compares, in the order it compares them.
TieBreakMasks(b) ==
  <<b.ours \cup b.theirs, b.ours, b.kings, b.queens, b.rooks, b.knights,
    b.bishops>>

\* The chain of comparisons made when the king is on the quadrant diagonal:
\* the first mask whose comparison is not 0 decides, from index i on.
RECURSIVE TieBreak(_, _, _)
TieBreak(b, t, i) ==
  IF i > Len(TieBreakMasks(b)) THEN t
  ELSE LET outcome == CompareTransposing(TieBreakMasks(b)[i], t)
       IN  IF outcome = -1 THEN t
           ELSE IF outcome = 1 THEN t + 4
           ELSE TieBreak(b, t, i + 1)

ChooseAfterPawnsNoTriangle(b, t, our_king) ==
  LET t2 == IF our_king \cap TopHalf # {} THEN t + 2 ELSE t
      k2 == IF our_king \cap TopHalf # {} THEN ReverseBytesInBytes(our_king)
            ELSE our_king
  IN  IF k2 \cap QuadrantDiagonal # {} THEN TieBreak(b, t2, 1)
      ELSE t2

\* ChooseTransform from the byte-order step on: no castling, no pawns.
ChooseAfterPawns(b, t, our_king) ==
  LET t2 == IF our_king \cap TopHalf # {} THEN t + 2 ELSE t
      k2 == IF our_king \cap TopHalf # {} THEN ReverseBytesInBytes(our_king)
            ELSE our_king
  IN  IF k2 \cap OffDiagonalTriangle # {} THEN t2 + 4
      ELSE IF k2 \cap QuadrantDiagonal # {} THEN TieBreak(b, t2, 1)
      ELSE t2

ChooseAfterCastleIgnoringPawns(b) ==
  LET our_king == b.kings \cap b.ours
      t == IF our_king \cap LeftHalf # {} THEN 1 ELSE 0
      k == IF our_king \cap LeftHalf # {} THEN ReverseBitsInBytes(our_king)
           ELSE our_king
  IN  ChooseAfterPawns(b, t, k)

\* ChooseTransform after the castling test.
ChooseAfterCastle(b) ==
  LET our_king == b.kings \cap b.ours
      t == IF our_king \cap LeftHalf # {} THEN 1 ELSE 0
      k == IF our_king \cap LeftHalf # {} THEN ReverseBitsInBytes(our_king)
           ELSE our_king
  IN  IF b.pawns # {} THEN t ELSE ChooseAfterPawns(b, t, k)

ChooseTransformIgnoringCastling(b) == ChooseAfterCastle(b)

ChooseTransform(b) ==
  IF ~no_legal_castle(b.castlings) THEN 0 ELSE ChooseAfterCastle(b)

-----------------------------------------------------------------------------
(* The position encoder. *)

kMoveHistory == 8
kPlanesPerBoard == 13
kAuxPlaneBase == kPlanesPerBoard * kMoveHistory

\* pblczero::NetworkFormat::InputFormat.
INPUT_UNKNOWN == 0
INPUT_CLASSICAL_112_PLANE == 1
INPUT_112_WITH_CASTLING_PLANE == 2
INPUT_112_WITH_CANONICALIZATION == 3

SupportedFormats ==
  {INPUT_CLASSICAL_112_PLANE, INPUT_112_WITH_CASTLING_PLANE,
   INPUT_112_WITH_CANONICALIZATION}

\* FillEmptyHistory.
FillPolicies == {"NO", "FEN_ONLY", "ALWAYS"}

\* InputPlanes result(n): n planes with an empty mask.
EmptyPlanes(n) == [i \in 1..n |-> {}]

\* result[j].mask = mask, j counted from 0 as in the source.
SetMask(result, j, mask) == [result EXCEPT ![j + 1] = mask]
MaskAt(result, j) == result[j + 1]

\* InputPlane::Fill(n): all bits set if n >= 1, else clear.
Fill(n) == IF n >= 1 THEN AllOnes ELSE {}

\* mask << n.
ShiftLeft(mask, n) == {s + n : s \in mask} \cap Squares

\* mask + 2^k and mask - 2^k, modulo 2^64.
RECURSIVE Add64Bit(_, _)
Add64Bit(mask, k) ==
  IF k > 63 THEN mask
  ELSE IF k \notin mask THEN mask \cup {k}
  ELSE Add64Bit(mask \ {k}, k + 1)

RECURSIVE Sub64Bit(_, _)
Sub64Bit(mask, k) ==
  IF k > 63 THEN mask
  ELSE IF k \in mask THEN mask \ {k}
  ELSE Sub64Bit(mask \cup {k}, k + 1)

A1 == 0
A8 == 56

\* The planes from kAuxPlaneBase on, for a supported format; any other
\* format reaches this only where the default case does not throw.
AuxPlanes(result, input_format, b, last) ==
  LET cast == b.castlings
      r1 == IF input_format = INPUT_CLASSICAL_112_PLANE
            THEN LET c0 == IF cast.we_can_000
                           THEN SetMask(result, kAuxPlaneBase + 0, AllOnes)
                           ELSE result
                     c1 == IF cast.we_can_00
                           THEN SetMask(c0, kAuxPlaneBase + 1, AllOnes)
                           ELSE c0
                     c2 == IF cast.they_can_000
                           THEN SetMask(c1, kAuxPlaneBase + 2, AllOnes)
                           ELSE c1
                 IN  IF cast.they_can_00
                     THEN SetMask(c2, kAuxPlaneBase + 3, AllOnes)
                     ELSE c2
            ELSE IF input_format \in {INPUT_112_WITH_CASTLING_PLANE,
                                      INPUT_112_WITH_CANONICALIZATION}
            THEN LET q == ShiftLeft(
                            (IF cast.we_can_000 THEN {A1} ELSE {})
                              \cup (IF cast.they_can_000 THEN {A8} ELSE {}),
                            cast.queenside_rook)
                     k == ShiftLeft(
                            (IF cast.we_can_00 THEN {A1} ELSE {})
                              \cup (IF cast.they_can_00 THEN {A8} ELSE {}),
                            cast.kingside_rook)
                 IN  SetMask(SetMask(result, kAuxPlaneBase + 0, q),
                             kAuxPlaneBase + 1, k)
            ELSE result
      r2 == IF input_format = INPUT_112_WITH_CANONICALIZATION
            THEN SetMask(r1, kAuxPlaneBase + 4, b.en_passant)
            ELSE IF b.flipped THEN SetMask(r1, kAuxPlaneBase + 4, AllOnes)
            ELSE r1
      r3 == SetMask(r2, kAuxPlaneBase + 5, Fill(GetNoCaptureNoPawnPly(last)))
  IN  SetMask(r3, kAuxPlaneBase + 7, AllOnes)

\* The thirteen planes of one history slot.
BoardPlanes(result, base, b, repetitions) ==
  LET masks == <<b.ours \cap b.pawns, b.ours \cap b.knights,
                 b.ours \cap b.bishops, b.ours \cap b.rooks,
                 b.ours \cap b.queens, b.ours \cap b.kings,
                 b.theirs \cap b.pawns, b.theirs \cap b.knights,
                 b.theirs \cap b.bishops, b.theirs \cap b.rooks,
                 b.theirs \cap b.queens, b.theirs \cap b.kings>>
  IN  [j \in DOMAIN result |->
         IF j - 1 >= base /\ j - 1 < base + 12 THEN masks[j - base]
         ELSE IF j - 1 = base + 12 /\ repetitions >= 1 THEN AllOnes
         ELSE result[j]]

\* Undoes the last pawn move of a synthesized board that has an en-passant
\* flag: the pawn goes back from its new square to its pre-move square.
UndoEnPassant(result, base, b) ==
  LET idx == MinOf(b.en_passant)
  IN  IF idx < 8
      THEN SetMask(result, base + 0,
             Sub64Bit(Add64Bit(MaskAt(result, base + 0), 8 + idx), 24 + idx))
      ELSE SetMask(result, base + 6,
             Sub64Bit(Add64Bit(MaskAt(result, base + 6), 48 + (idx - 56)),
                      32 + (idx - 56)))

WalkDepthUnbounded(history_planes) == history_planes

\* The bound of the loop: std::min(history_planes, kMoveHistory).
WalkDepth(history_planes) == Min(history_planes, kMoveHistory)

StopEarlyBreaksIgnoringEnPassant(ctx, history_idx, b) ==
  ctx.stop_early /\ b.castlings # ctx.castlings

\* The two breaks of the canonical format at the head of a round: the
\* castling rights differ from the current position's, or a position other
\* than the current one has an en-passant target.
StopEarlyBreaks(ctx, history_idx, b) ==
  \/ ctx.stop_early /\ b.castlings # ctx.castlings
  \/ /\ ctx.stop_early
     /\ history_idx # Len(ctx.history) - 1
     /\ b.en_passant # {}

UnderflowBreaksFenOnlyAsNo(ctx, history_idx, position) ==
  history_idx < 0 /\ ctx.fill \in {"NO", "FEN_ONLY"}

\* The two breaks on a slot before the first position of the history.
UnderflowBreaks(ctx, history_idx, position) ==
  \/ history_idx < 0 /\ ctx.fill = "NO"
  \/ /\ history_idx < 0
     /\ ctx.fill = "FEN_ONLY"
     /\ GetBoard(position) = kStartposBoard

\* The history walk.  ctx holds what the loop reads and does not change; the
\* walk returns the planes and the number of slots it populated.
RECURSIVE HistoryLoop(_, _, _, _, _)
HistoryLoop(ctx, result, i, history_idx, flip) ==
  IF i >= WalkDepth(ctx.history_planes)
  THEN [planes |-> result, populated |-> i]
  ELSE
    LET at == IF history_idx < 0 THEN 0 ELSE history_idx
        position == ctx.history[at + 1]
        b == IF flip THEN GetThemBoard(position) ELSE GetBoard(position)
        stop == [planes |-> result, populated |-> i]
    IN  IF StopEarlyBreaks(ctx, history_idx, b) THEN stop
        ELSE IF UnderflowBreaks(ctx, history_idx, position) THEN stop
        ELSE
          LET base == i * kPlanesPerBoard
              r1 == BoardPlanes(result, base, b, GetRepetitions(position))
              r2 == IF history_idx < 0 /\ b.en_passant # {}
                    THEN UndoEnPassant(r1, base, b)
                    ELSE r1
              flip2 == IF history_idx > 0 THEN ~flip ELSE flip
          IN  IF ctx.stop_early /\ GetNoCaptureNoPawnPly(position) = 0
              THEN [planes |-> r2, populated |-> i + 1]
              ELSE HistoryLoop(ctx, r2, i + 1, history_idx - 1, flip2)

\* The transform applied to the planes 0..kAuxPlaneBase + 4, empty and full
\* masks skipped.
TransformPlanes(result, t) ==
  IF t = 0 THEN result
  ELSE [j \in DOMAIN result |->
          IF j - 1 <= kAuxPlaneBase + 4 /\ result[j] # {} /\ result[j] # AllOnes
          THEN ApplyTransform(result[j], t)
          ELSE result[j]]

\* EncodePositionForNN past the test of the format.  The caller passes a
\* transform_out, so the last statement writes it.
EncodeBody(input_format, history, history_planes, fill_empty_history) ==
  LET last == history[Len(history)]
      b == GetBoard(last)
      stop_early == input_format = INPUT_112_WITH_CANONICALIZATION
      t == IF input_format = INPUT_112_WITH_CANONICALIZATION
           THEN ChooseTransform(b) ELSE 0
      aux == AuxPlanes(EmptyPlanes(kAuxPlaneBase + 8), input_format, b, last)
      ctx == [history |-> history, history_planes |-> history_planes,
              fill |-> fill_empty_history, stop_early |-> stop_early,
              castlings |-> b.castlings]
      walked == HistoryLoop(ctx, aux, 0, Len(history) - 1, FALSE)
  IN  [threw |-> FALSE,
       planes |-> TransformPlanes(walked.planes, t),
       populated |-> walked.populated,
       transform |-> t,
       out_written |-> TRUE]

\* throw Exception("Unsupported input plane encoding ..."): nothing is
\* returned and *transform_out is not written.
EncodeThrows ==
  [threw |-> TRUE, planes |-> <<>>, populated |-> 0, transform |-> 0,
   out_written |-> FALSE]

EncodeDefaultBreaks(input_format, history, history_planes, fill) ==
  EncodeBody(input_format, history, history_planes, fill)

EncodePositionForNN(input_format, history, history_planes, fill) ==
  IF input_format \notin SupportedFormats THEN EncodeThrows
  ELSE EncodeBody(input_format, history, history_planes, fill)

-----------------------------------------------------------------------------
(* Histories the encoder is applied to. *)

PoolCastlings == [NoCastlings EXCEPT !.we_can_00 = TRUE]

\* Boards as the side to move sees them.
RookEnding ==
  MakeBoard({<<2, "ours", "king">>, <<9, "ours", "rook">>,
             <<54, "theirs", "king">>}, NoCastlings)

\* Their pawn has just advanced two squares to 35: the flag is on 59.
PawnEnding ==
  FullBoard({<<4, "ours", "king">>, <<12, "ours", "pawn">>,
             <<60, "theirs", "king">>, <<35, "theirs", "pawn">>},
            NoCastlings, {59}, FALSE)

CastlingBoard ==
  MakeBoard({<<4, "ours", "king">>, <<7, "ours", "rook">>,
             <<60, "theirs", "king">>}, PoolCastlings)

\* Both sides keep the right to castle on the king's side.
BothCastleBoard ==
  MakeBoard({<<4, "ours", "king">>, <<7, "ours", "rook">>,
             <<60, "theirs", "king">>, <<63, "theirs", "rook">>},
            [PoolCastlings EXCEPT !.they_can_00 = TRUE])

PositionPool ==
  {[board |-> kStartposBoard, repetitions |-> 0, rule50 |-> 0],
   [board |-> BothCastleBoard, repetitions |-> 0, rule50 |-> 3],
   [board |-> RookEnding, repetitions |-> 0, rule50 |-> 0],
   [board |-> RookEnding, repetitions |-> 1, rule50 |-> 5],
   [board |-> PawnEnding, repetitions |-> 0, rule50 |-> 0],
   [board |-> CastlingBoard, repetitions |-> 0, rule50 |-> 2]}

\* The sides alternate: white is to move in the first position.
MakeHistory(positions) ==
  [j \in DOMAIN positions |->
     [positions[j] EXCEPT !.board.flipped = (j % 2 = 0)]]

HistoriesOfLength(n) == {MakeHistory(f) : f \in [1..n -> PositionPool]}

Histories == UNION {HistoriesOfLength(n) : n \in 1..MaxHistory}

\* Format tags passed in: the three supported ones, 0 and 4.
InputFormats == INPUT_UNKNOWN..(INPUT_112_WITH_CANONICALIZATION + 1)

HistoryPlanesValues == {0, 1, 3, kMoveHistory, kMoveHistory + 1}

InitEncode ==
  /\ pc = "encode"
  /\ IdleTransform /\ IdleDrift /\ IdleReader /\ IdleSession
  /\ IdleRescore
  /\ IdleLater
  /\ \E f \in InputFormats, h \in Histories, n \in HistoryPlanesValues,
        fill \in FillPolicies :
       enc = [input_format |-> f, history |-> h, history_planes |-> n,
              fill_empty_history |-> fill, result |-> NoEncodeResult]

CallEncodePositionForNN ==
  /\ pc = "encode"
  /\ pc' = "encoded"
  /\ enc' = [enc EXCEPT !.result =
               EncodePositionForNN(enc.input_format, enc.history,
                                   enc.history_planes,
                                   enc.fill_empty_history)]
  /\ UNCHANGED <<laterVars, transformVars, driftVars, readerVars, sessionVars,
                 rescoreVars>>

NextEncode == CallEncodePositionForNN

SpecEncode == InitEncode /\ [][NextEncode]_vars

-----------------------------------------------------------------------------
(* The rescoring path: ProcessFile, and the decoder of its records. *)

\* The number of plane words of a record: the extent of its planes field.
NumPlaneWords == V6TrainingDataFields[3][3]

\* A player name is read only by std::stoi(name.substr(11)): the model keeps
\* its length, whether an integer starts at offset 11 and that integer.
PlayerName(length, numbered, index) ==
  [length |-> length, numbered |-> numbered, index |-> index]

\* std::stoi(player.substr(11)): substr throws past the end of the name,
\* stoi throws where no integer starts.
StoiSubstr11(player) ==
  IF player.length < 11 THEN [thrown |-> "std::out_of_range", value |-> 0]
  ELSE IF ~player.numbered
  THEN [thrown |-> "std::invalid_argument", value |-> 0]
  ELSE [thrown |-> "none", value |-> player.index]

CopyPlanesUnreversed(planes) == [j \in 1..NumPlaneWords |-> planes[j]]

\* for (auto& plane : data.planes) plane = ReverseBitsInBytes(...).
CopyPlanes(planes) ==
  [j \in 1..NumPlaneWords |-> ReverseBitsInBytes(planes[j])]

\* The body of the loop over the games, up to WriteChunk: the record, or the
\* exception that leaves the loop.
ProcessGame(game) ==
  LET planes == EncodePositionForNN(INPUT_CLASSICAL_112_PLANE, game.history,
                                    8, "NO").planes
      p1 == StoiSubstr11(game.player1)
      p2 == StoiSubstr11(game.player2)
  IN  [thrown |-> IF p1.thrown # "none" THEN p1.thrown ELSE p2.thrown,
       data |-> [version |-> 1,
                 input_format |-> 1,
                 planes |-> CopyPlanes(planes),
                 result_q |-> game.outcome,
                 result_d |-> IF game.outcome = 0 THEN 1 ELSE 0,
                 p1idx |-> p1.value,
                 p2idx |-> p2.value]]

\* The loop over the games: a record is handed to the writer at the end of
\* each round; an exception of the standard library is not an Exception, so
\* the catch clause does not stop it and it leaves ProcessFile.
RECURSIVE ProcessGames(_, _)
ProcessGames(games, written) ==
  IF games = <<>> THEN [status |-> "done", written |-> written]
  ELSE LET g == ProcessGame(Head(games))
       IN  IF g.thrown # "none"
           THEN [status |-> "escaped", written |-> written]
           ELSE ProcessGames(Tail(games), Append(written, g.data))

\* ProcessFile: a file that cannot be read or an output that cannot be
\* created throws an Exception, which is caught and reported.
ProcessFile(file) ==
  IF ~file.readable \/ ~file.writable
  THEN [status |-> "caught", written |-> <<>>]
  ELSE ProcessGames(file.games, <<>>)

\* PlanesFromTrainingData: InputPlanes result; return result;
PlanesFromTrainingData(data) == <<>>

Outcomes == {-1, 0, 1}

GameHistories ==
  {MakeHistory(<<[board |-> kStartposBoard, repetitions |-> 0,
                  rule50 |-> 0]>>),
   MakeHistory(<<[board |-> kStartposBoard, repetitions |-> 0, rule50 |-> 0],
                 [board |-> PawnEnding, repetitions |-> 0, rule50 |-> 0]>>),
   MakeHistory(<<[board |-> RookEnding, repetitions |-> 0, rule50 |-> 4],
                 [board |-> CastlingBoard, repetitions |-> 0, rule50 |-> 0],
                 [board |-> RookEnding, repetitions |-> 1, rule50 |-> 5]>>)}

\* Pairs of names: both read, the first fails, the second fails.
PlayerPairs ==
  {<<PlayerName(13, TRUE, 7), PlayerName(12, TRUE, 0)>>,
   <<PlayerName(5, FALSE, 0), PlayerName(12, TRUE, 0)>>,
   <<PlayerName(13, TRUE, 7), PlayerName(14, FALSE, 0)>>}

GamePool ==
  {[history |-> h, outcome |-> o, player1 |-> n[1], player2 |-> n[2]] :
     h \in GameHistories, o \in Outcomes, n \in PlayerPairs}

RECURSIVE GameLists(_)
GameLists(n) ==
  IF n = 0 THEN {<<>>}
  ELSE LET shorter == GameLists(n - 1)
       IN  shorter \cup {Append(l, g) : l \in shorter, g \in GamePool}

InitRescore ==
  /\ pc = "rescore"
  /\ IdleTransform /\ IdleDrift /\ IdleReader /\ IdleSession /\ IdleEnc
  /\ IdleLater
  /\ \E r \in BOOLEAN, w \in BOOLEAN, games \in GameLists(MaxGames) :
       rescore = [file |-> [readable |-> r, writable |-> w,
                            games |-> IF r THEN games ELSE <<>>],
                  status |-> "pending", written |-> <<>>, decoded_of |-> 0,
                  decoded |-> <<>>]

CallProcessFile ==
  /\ pc = "rescore"
  /\ pc' = "rescored"
  /\ LET out == ProcessFile(rescore.file)
     IN  rescore' = [rescore EXCEPT !.status = out.status,
                                    !.written = out.written]
  /\ UNCHANGED <<laterVars, transformVars, driftVars, readerVars, sessionVars,
                 encVars>>

\* One of the records written is decoded.
CallPlanesFromTrainingData ==
  /\ pc = "rescored"
  /\ pc' = "decoded"
  /\ \E i \in DOMAIN rescore.written :
       rescore' = [rescore EXCEPT
                     !.decoded_of = i,
                     !.decoded = PlanesFromTrainingData(rescore.written[i])]
  /\ UNCHANGED <<laterVars, transformVars, driftVars, readerVars, sessionVars,
                 encVars>>

NextRescore == CallProcessFile \/ CallPlanesFromTrainingData

SpecRescore == InitRescore /\ [][NextRescore]_vars

-----------------------------------------------------------------------------
(* Boards the selector is applied to. *)

\* Squares of the pieces besides the side-to-move king: one orbit of the
\* eight symmetries, so that every transform maps the set onto itself.
ExtraSquares == {9, 14, 49, 54}

\* The placements of at most n pieces, none a king, on the squares sqs.
RECURSIVE Placements(_, _)
Placements(sqs, n) ==
  IF n = 0 \/ sqs = {} THEN {{}}
  ELSE LET s == MinOf(sqs)
       IN  Placements(sqs \ {s}, n)
           \cup {{<<s, x[1], x[2]>>} \cup x[3] :
                   x \in {"ours", "theirs"} \X (PieceTypes \ {"king"})
                          \X Placements(sqs \ {s}, n - 1)}

ExtraPlacements == Placements(ExtraSquares, MaxExtra)
CastlingPlacements == Placements(ExtraSquares, 1)

\* Both kings, on the squares k and tk, and the other pieces ps.
WithKings(k, tk, ps) ==
  {<<k, "ours", "king">>, <<tk, "theirs", "king">>} \cup ps

FreeSquares(k, tk, ps) ==
  k # tk /\ \A p \in ps : p[1] # k /\ p[1] # tk

-----------------------------------------------------------------------------
(* The selector applied to a board. *)

\* Boards without castling rights carry up to MaxExtra pieces besides the
\* kings; boards with a castling right carry at most one.
InitTransform ==
  /\ pc = "board"
  /\ transform = 0
  /\ IdleDrift /\ IdleReader /\ IdleSession /\ IdleEnc /\ IdleRescore
  /\ IdleLater
  /\ \E k \in Squares, tk \in ExtraSquares :
       \/ \E ps \in ExtraPlacements :
            /\ FreeSquares(k, tk, ps)
            /\ board = MakeBoard(WithKings(k, tk, ps), NoCastlings)
       \/ \E ps \in CastlingPlacements, c \in AllCastlings \ {NoCastlings} :
            /\ FreeSquares(k, tk, ps)
            /\ board = MakeBoard(WithKings(k, tk, ps), c)

CallChooseTransform ==
  /\ pc = "board"
  /\ pc' = "chosen"
  /\ transform' = ChooseTransform(board)
  /\ UNCHANGED <<laterVars, board, driftVars, readerVars, sessionVars, encVars,
                 rescoreVars>>

NextTransform == CallChooseTransform

SpecTransform == InitTransform /\ [][NextTransform]_vars

-----------------------------------------------------------------------------
(* The tournament status line: SelfPlayLoop::SendTournament. *)

\* A float that holds a quotient of game counts, kept as numerator and
\* denominator, the denominator positive.  The counts are small, so the
\* comparisons of the float with 0 and 1 are those of the quotient.
Quotient(n, d) == [num |-> n, den |-> d]
IsPositive(x) == x.num > 0
IsBelowOne(x) == x.num < x.den

\* float percentage = -1.
MinusOne == Quotient(-1, 1)

\* The part of the line that depends on the branches taken, with the
\* divisors and the arguments of log that were evaluated on the way.
StatusLine(info, percentage_below_one_tested) ==
  LET winp1 == info.results[1][1] + info.results[1][2]
      losep1 == info.results[3][1] + info.results[3][2]
      draws == info.results[2][1] + info.results[2][2]
      total == winp1 + losep1 + draws
      counted == total > 0
      percentage == IF counted THEN Quotient(draws + 2 * winp1, 2 * total)
                    ELSE MinusOne
      has_elo == /\ percentage_below_one_tested => IsBelowOne(percentage)
                 /\ IsPositive(percentage)
      has_los == winp1 + losep1 > 0
  IN  [final |-> info.finished,
       winp1 |-> winp1, losep1 |-> losep1, draws |-> draws,
       win_shown |-> IsPositive(percentage),
       percentage |-> percentage,
       elo_shown |-> has_elo,
       los_shown |-> has_los,
       \* total, then percentage in 1 / percentage, then the square
       \* root of 2.0 * (winp1 + losep1), positive when its argument is.
       divisors |-> (IF counted THEN {Quotient(total, 1)} ELSE {})
                      \cup (IF has_elo THEN {percentage} ELSE {})
                      \cup (IF has_los THEN {Quotient(winp1 + losep1, 1)}
                            ELSE {}),
       \* 1 / percentage - 1, and 10.
       log_args |-> IF has_elo
                    THEN {Quotient(percentage.den - percentage.num,
                                   percentage.num),
                          Quotient(10, 1)}
                    ELSE {}]

SendTournamentEloAtOne(info) == StatusLine(info, FALSE)

SendTournament(info) == StatusLine(info, TRUE)

\* The counts of a TournamentInfo: results[outcome][colour of player 1],
\* the outcomes in the order win, draw, loss.
ResultTables == [1..3 -> [1..2 -> 0..MaxCount]]

InitStatus ==
  /\ pc = "status"
  /\ IdleEarlier /\ IdleLoop /\ IdleTour /\ IdleBook
  /\ \E r \in ResultTables, f \in BOOLEAN :
       status = [info |-> [results |-> r, finished |-> f], sent |-> <<>>]

CallSendTournament ==
  /\ pc = "status"
  /\ pc' = "sent"
  /\ status' = [status EXCEPT !.sent = <<SendTournament(status.info)>>]
  /\ UNCHANGED <<earlierVars, loopVars, tourVars, bookVars>>

NextStatus == CallSendTournament

SpecStatus == InitStatus /\ [][NextStatus]_vars

-----------------------------------------------------------------------------
(* RescoreLoop::RunLoop from the start of the threads on, and ProcessFiles. *)

GoodGame ==
  [history |-> MakeHistory(<<[board |-> kStartposBoard, repetitions |-> 0,
                              rule50 |-> 0]>>),
   outcome |-> 1,
   player1 |-> PlayerName(13, TRUE, 7), player2 |-> PlayerName(12, TRUE, 0)]

\* The files of the input directory: whether the name ends in ".pgn", and
\* what ProcessFile finds.
FilePool ==
  {[pgn |-> TRUE, readable |-> TRUE, writable |-> TRUE,
    games |-> <<GoodGame>>],
   [pgn |-> FALSE, readable |-> TRUE, writable |-> TRUE,
    games |-> <<GoodGame>>],
   [pgn |-> TRUE, readable |-> FALSE, writable |-> TRUE, games |-> <<>>],
   [pgn |-> TRUE, readable |-> TRUE, writable |-> FALSE,
    games |-> <<GoodGame>>],
   [pgn |-> TRUE, readable |-> TRUE, writable |-> TRUE,
    games |-> <<[GoodGame EXCEPT !.player2 = PlayerName(14, FALSE, 0)]>>]}

RECURSIVE FileLists(_)
FileLists(n) ==
  IF n = 0 THEN {<<>>}
  ELSE LET shorter == FileLists(n - 1)
       IN  shorter \cup {Append(l, f) : l \in shorter, f \in FilePool}

\* Thread offset runs ProcessFiles(files, outputDir, offset, mod): next is
\* the index i of its loop, counted from 0.
InitLoop ==
  /\ pc = "loop"
  /\ IdleEarlier /\ IdleStatus /\ IdleTour /\ IdleBook
  /\ \E files \in FileLists(MaxFiles) \ {<<>>}, threads \in 1..MaxThreads :
       loop = [files |-> files, threads |-> threads,
               next |-> [offset \in 0..(threads - 1) |-> offset],
               processed |-> {}, skipped |-> {}, caught |-> {},
               terminated |-> FALSE, visits |-> {}, writers |-> {}]

\* One round of the loop of ProcessFiles in the thread with this offset.  An
\* exception that leaves ProcessFile leaves ProcessFiles and the function of
\* the thread as well (or RunLoop, with one thread): the process ends.
\* visits holds the pairs of an index and the thread whose loop reached it,
\* writers those for which the thread made a TrainingDataWriter, which
\* ProcessFile does once the file is read; the files of one directory have
\* different names, so an index stands for one output file.
ProcessFilesStep(offset) ==
  LET i == loop.next[offset]
      file == loop.files[i + 1]
      out == ProcessFile(file)
      seen == [loop EXCEPT
                 !.visits = @ \cup {<<i, offset>>},
                 !.writers = IF file.pgn /\ file.readable
                             THEN @ \cup {<<i, offset>>} ELSE @]
      stepped == [seen EXCEPT !.next[offset] = i + loop.threads]
  IN  IF ~file.pgn
      THEN [stepped EXCEPT !.skipped = @ \cup {i}]
      ELSE IF out.status = "escaped"
      THEN [seen EXCEPT !.terminated = TRUE]
      ELSE IF out.status = "caught"
      THEN [stepped EXCEPT !.caught = @ \cup {i}]
      ELSE [stepped EXCEPT !.processed = @ \cup {i}]

RunProcessFiles ==
  /\ pc = "loop"
  /\ ~loop.terminated
  /\ \E offset \in DOMAIN loop.next :
       /\ loop.next[offset] < Len(loop.files)
       /\ loop' = ProcessFilesStep(offset)
  /\ UNCHANGED <<pc, earlierVars, statusVars, tourVars, bookVars>>

\* Every thread has left its loop and is joined: RunLoop prints its totals.
JoinThreads ==
  /\ pc = "loop"
  /\ ~loop.terminated
  /\ \A offset \in DOMAIN loop.next : loop.next[offset] >= Len(loop.files)
  /\ pc' = "looped"
  /\ UNCHANGED <<earlierVars, loopVars, statusVars, tourVars, bookVars>>

NextLoop == RunProcessFiles \/ JoinThreads

SpecLoop == InitLoop /\ [][NextLoop]_vars

-----------------------------------------------------------------------------
(* SelfPlayTournament, and the threads of SelfPlayLoop that call into it.

   Two threads call into the tournament: "run" executes RunBlocking (the
   thread CmdStart creates, or the thread of SelfPlayLoop::RunLoop) and
   "uci" executes CmdStart, CmdStop and the destructor of SelfPlayLoop.
   mutex_ is held only over steps that do not block, so a step under it is
   one action; threads_mutex_ is held over the joins of Wait, so its owner
   is part of the state. *)

Callers == {"uci", "run"}

\* SelfPlayTournament::Worker: return.  It claims no game and counts none.
Worker(t, id) == [t EXCEPT !.worker[id] = "returned"]

StartAsyncUnbounded(t) ==
  LET n == t.kParallelism
      first == Len(t.worker)
  IN  [t EXCEPT !.threads_ = @ \o [i \in 1..n |-> first + i],
                !.worker = @ \o [i \in 1..n |-> "running"]]

\* SelfPlayTournament::StartAsync, under threads_mutex_: threads are added
\* while threads_.size() < kParallelism.
StartAsync(t) ==
  LET n == IF Len(t.threads_) < t.kParallelism
           THEN t.kParallelism - Len(t.threads_) ELSE 0
      first == Len(t.worker)
  IN  [t EXCEPT !.threads_ = @ \o [i \in 1..n |-> first + i],
                !.worker = @ \o [i \in 1..n |-> "running"]]

\* threads_.back().join(); threads_.pop_back();
JoinBack(t) ==
  LET id == t.threads_[Len(t.threads_)]
  IN  [t EXCEPT !.threads_ = SubSeq(@, 1, Len(@) - 1),
                !.worker[id] = "joined"]

ReportFinishedIgnoringAbort(t) ==
  [t EXCEPT !.tournament_info_.finished = TRUE, !.reports = @ + 1]

\* Mutex::Lock lock(mutex_); if (!abort_) { tournament_info_.finished =
\* true; tournament_callback_(tournament_info_); }
ReportFinished(t) ==
  IF ~t.abort_
  THEN [t EXCEPT !.tournament_info_.finished = TRUE, !.reports = @ + 1]
  ELSE t

\* SelfPlayTournament::Stop, and Abort with no game in games_.
Stop(t) == [t EXCEPT !.abort_ = TRUE]
Abort(t) == [t EXCEPT !.abort_ = TRUE]

\* The caller moves on.
Goto(t, c, label) == [t EXCEPT !.at[c] = label]

InitTour ==
  /\ pc = "tour"
  /\ IdleEarlier /\ IdleStatus /\ IdleLoop /\ IdleBook
  /\ \E p \in 1..MaxParallelism, n \in 1..MaxTotalGames,
        mode \in {"uci", "runloop"} :
       tour = [kParallelism |-> p, kTotalGames |-> n, mode |-> mode,
               threads_ |-> <<>>, worker |-> <<>>, abort_ |-> FALSE,
               tournament_info_ |-> [finished |-> FALSE, games |-> 0],
               claimed |-> {}, reports |-> 0, threads_mutex_ |-> "free",
               at |-> [c \in Callers |->
                         IF c = "run" /\ mode = "runloop"
                         THEN "RunBlocking" ELSE "idle"],
               ret |-> [c \in Callers |-> "idle"],
               stops |-> 0, direct_starts |-> 0, direct_waits |-> 0,
               inline_workers |-> 0,
               returned_undrained |-> FALSE]

\* SelfPlayLoop::CmdStart: the tournament is made and thread_ runs
\* RunBlocking.
CmdStart ==
  /\ tour.mode = "uci" /\ tour.at["uci"] = "idle"
  /\ tour' = Goto(Goto(tour, "uci", "ready"), "run", "RunBlocking")
  /\ UNCHANGED <<pc, earlierVars, statusVars, loopVars, bookVars>>

\* RunBlocking: the branch on kParallelism.
RunBlocking ==
  /\ tour.at["run"] = "RunBlocking"
  /\ tour' = IF tour.kParallelism = 1 THEN Goto(tour, "run", "inline")
             ELSE Goto(tour, "run", "StartAsync")
  /\ UNCHANGED <<pc, earlierVars, statusVars, loopVars, bookVars>>

\* RunBlocking with one worker: Worker() on the calling thread, then the
\* report under mutex_.
RunInline ==
  /\ tour.at["run"] = "inline"
  /\ tour' = [Goto(ReportFinished(tour), "run", "done") EXCEPT
                !.inline_workers = @ + 1]
  /\ UNCHANGED <<pc, earlierVars, statusVars, loopVars, bookVars>>

\* RunBlocking calls StartAsync, then Wait.
RunStartAsync ==
  /\ tour.at["run"] = "StartAsync"
  /\ tour.threads_mutex_ = "free"
  /\ tour' = [Goto(StartAsync(tour), "run", "Wait") EXCEPT
                !.ret["run"] = "done"]
  /\ UNCHANGED <<pc, earlierVars, statusVars, loopVars, bookVars>>

\* A further call of StartAsync on the tournament, from outside the loop.
DirectStartAsync ==
  /\ tour.at["run"] # "idle"
  /\ \A c \in Callers : tour.at[c] # "destroyed"
  /\ tour.direct_starts < MaxDirectStarts
  /\ tour.threads_mutex_ = "free"
  /\ tour' = [StartAsync(tour) EXCEPT !.direct_starts = @ + 1]
  /\ UNCHANGED <<pc, earlierVars, statusVars, loopVars, bookVars>>

\* A further call of Wait on the tournament, with no Stop before it, from
\* the thread that made the tournament.
DirectWait ==
  /\ tour.at["uci"] = "ready"
  /\ tour.direct_waits < MaxDirectWaits
  /\ tour' = [Goto(tour, "uci", "Wait") EXCEPT
                !.ret["uci"] = "ready", !.direct_waits = @ + 1]
  /\ UNCHANGED <<pc, earlierVars, statusVars, loopVars, bookVars>>

\* The thread of a worker runs Worker to its end.
WorkerRuns ==
  /\ \E id \in DOMAIN tour.worker :
       /\ tour.worker[id] = "running"
       /\ tour' = Worker(tour, id)
  /\ UNCHANGED <<pc, earlierVars, statusVars, loopVars, bookVars>>

\* Wait: Mutex::Lock lock(threads_mutex_).
WaitLock(c) ==
  /\ tour.at[c] = "Wait"
  /\ tour.threads_mutex_ = "free"
  /\ tour' = [Goto(tour, c, "drain") EXCEPT !.threads_mutex_ = c]
  /\ UNCHANGED <<pc, earlierVars, statusVars, loopVars, bookVars>>

\* Wait: one round of the loop over threads_; join blocks until the thread
\* has ended.  With the roster empty the lock is released.
WaitDrain(c) ==
  /\ tour.at[c] = "drain"
  /\ IF tour.threads_ = <<>>
     THEN tour' = [Goto(tour, c, "report") EXCEPT !.threads_mutex_ = "free"]
     ELSE /\ tour.worker[tour.threads_[Len(tour.threads_)]] = "returned"
          /\ tour' = JoinBack(tour)
  /\ UNCHANGED <<pc, earlierVars, statusVars, loopVars, bookVars>>

\* Wait: the report under mutex_, and the return.
WaitReport(c) ==
  /\ tour.at[c] = "report"
  /\ tour' = [Goto(ReportFinished(tour), c, tour.ret[c]) EXCEPT
                !.returned_undrained = @ \/ tour.threads_ # <<>>]
  /\ UNCHANGED <<pc, earlierVars, statusVars, loopVars, bookVars>>

\* SelfPlayLoop::CmdStop: Stop, then Wait.
CmdStop ==
  /\ tour.at["uci"] = "ready"
  /\ tour.stops < MaxStops
  /\ tour' = [Goto(Stop(tour), "uci", "Wait") EXCEPT
                !.ret["uci"] = "ready", !.stops = @ + 1]
  /\ UNCHANGED <<pc, earlierVars, statusVars, loopVars, bookVars>>

\* ~SelfPlayLoop: without a tournament there is nothing to do; with one,
\* Abort, then the join of thread_.
DestroyLoop ==
  /\ tour.mode = "uci"
  /\ \/ /\ tour.at["uci"] = "idle"
        /\ tour' = Goto(tour, "uci", "destroyed")
     \/ /\ tour.at["uci"] = "ready"
        /\ tour' = Goto(Abort(tour), "uci", "join")
  /\ UNCHANGED <<pc, earlierVars, statusVars, loopVars, bookVars>>

JoinRunThread ==
  /\ tour.at["uci"] = "join"
  /\ tour.at["run"] = "done"
  /\ tour' = Goto(tour, "uci", "~SelfPlayTournament")
  /\ UNCHANGED <<pc, earlierVars, statusVars, loopVars, bookVars>>

\* ~SelfPlayTournament: Abort, then Wait.  It runs in the thread that owns
\* the tournament: "uci", or "run" at the end of SelfPlayLoop::RunLoop.
DestroyTournament ==
  /\ \E c \in Callers :
       /\ \/ tour.at[c] = "~SelfPlayTournament"
          \/ c = "run" /\ tour.mode = "runloop" /\ tour.at[c] = "done"
       /\ tour' = [Goto(Abort(tour), c, "Wait") EXCEPT
                     !.ret[c] = "destroyed"]
  /\ UNCHANGED <<pc, earlierVars, statusVars, loopVars, bookVars>>

NextTour ==
  \/ CmdStart \/ RunBlocking \/ RunInline \/ RunStartAsync
  \/ DirectStartAsync \/ DirectWait \/ WorkerRuns
  \/ \E c \in Callers : WaitLock(c) \/ WaitDrain(c) \/ WaitReport(c)
  \/ CmdStop \/ DestroyLoop \/ JoinRunThread \/ DestroyTournament

SpecTour == InitTour /\ [][NextTour]_vars

-----------------------------------------------------------------------------
(* The constructor of SelfPlayTournament: the openings of the book are
   evaluated in batches.

   An opening stands for its tree and for the planes encoded from it, so a
   slot of the computation holds the index of the opening whose planes
   AddInput put there.  NetworkComputation numbers its inputs from 0 in the
   order of the calls of AddInput. *)

\* The width of a batch: the literal of the two loops.
kBatchWidth == 320

\* Which openings ComputeGameResult finds decided: those whose index has
\* one of the residues modulo the period.
DecidedPatterns ==
  {[period |-> 1, residues |-> {}], [period |-> 1, residues |-> {0}],
   [period |-> 2, residues |-> {0}], [period |-> 3, residues |-> {0, 1}]}

OpeningCounts ==
  {b * kBatchWidth + e : b \in 0..MaxFullBatches, e \in 0..MaxRemainder}

\* history.ComputeGameResult() == GameResult::UNDECIDED, for the tree of
\* opening j.
Undecided(b, j) == (j % b.pattern.period) \notin b.pattern.residues

InitBook ==
  /\ pc = "book"
  /\ IdleEarlier /\ IdleStatus /\ IdleLoop /\ IdleTour
  /\ \E n \in OpeningCounts, pattern \in DecidedPatterns :
       book = [openings |-> n, pattern |-> pattern, at |-> "outer",
               i |-> 0, j |-> 0, trees |-> <<>>, inputs |-> <<>>,
               computations |-> 0, compIndex |-> 0,
               added |-> 0, last_added |-> [j |-> -1, batch |-> 0],
               printed |-> 0,
               last_printed |-> [j |-> -1, batch |-> 0, decided |-> TRUE,
                                 slot |-> -1, input |-> -1]]

\* for (int i = 0; i < openings_.size(); i += 320): the test, and the new
\* computation and the empty vector of trees of a round.
BookOuterStep(b) ==
  IF b.i < b.openings
  THEN [b EXCEPT !.at = "add", !.inputs = <<>>, !.trees = <<>>,
                 !.j = b.i, !.computations = @ + 1]
  ELSE [b EXCEPT !.at = "done"]

\* One round of the first inner loop: the tree is pushed, and the planes
\* are added to the computation if the game is undecided.
BookAddStep(b) ==
  IF b.j < b.openings /\ b.j < b.i + kBatchWidth
  THEN [b EXCEPT !.trees = Append(@, b.j),
                 !.inputs = IF Undecided(b, b.j) THEN Append(@, b.j) ELSE @,
                 !.added = @ + 1,
                 !.last_added = [j |-> b.j, batch |-> b.computations],
                 !.j = @ + 1]
  ELSE [b EXCEPT !.at = "compute"]

\* comp->ComputeBlocking(); int compIndex = 0; and the start of the second
\* inner loop.
BookComputeStep(b) ==
  [b EXCEPT !.at = "read", !.compIndex = 0, !.j = b.i]

BookReadStepSlotByPosition(b) ==
  IF b.j < b.openings /\ b.j < b.i + kBatchWidth
  THEN LET tree == b.trees[b.j - b.i + 1]
           slot == b.j - b.i
       IN  IF Undecided(b, tree)
           THEN [b EXCEPT !.printed = @ + 1,
                          !.last_printed =
                             [j |-> b.j, batch |-> b.computations,
                              decided |-> FALSE, slot |-> slot,
                              input |-> IF slot < Len(b.inputs)
                                        THEN b.inputs[slot + 1] ELSE -1],
                          !.compIndex = @ + 1,
                          !.j = @ + 1]
           ELSE [b EXCEPT !.printed = @ + 1,
                          !.last_printed =
                             [j |-> b.j, batch |-> b.computations,
                              decided |-> TRUE, slot |-> -1, input |-> -1],
                          !.j = @ + 1]
  ELSE [b EXCEPT !.at = "outer", !.i = @ + kBatchWidth]

\* One round of the second inner loop: the tree is trees[j - i]; for an
\* undecided game GetQVal(compIndex) and GetDVal(compIndex) are printed and
\* compIndex moves on.  After the last round the outer loop adds 320 to i.
BookReadStep(b) ==
  IF b.j < b.openings /\ b.j < b.i + kBatchWidth
  THEN LET tree == b.trees[b.j - b.i + 1]
       IN  IF Undecided(b, tree)
           THEN [b EXCEPT !.printed = @ + 1,
                          !.last_printed =
                             [j |-> b.j, batch |-> b.computations,
                              decided |-> FALSE, slot |-> b.compIndex,
                              input |-> b.inputs[b.compIndex + 1]],
                          !.compIndex = @ + 1,
                          !.j = @ + 1]
           ELSE [b EXCEPT !.printed = @ + 1,
                          !.last_printed =
                             [j |-> b.j, batch |-> b.computations,
                              decided |-> TRUE, slot |-> -1, input |-> -1],
                          !.j = @ + 1]
  ELSE [b EXCEPT !.at = "outer", !.i = @ + kBatchWidth]

BookOuter ==
  /\ pc = "book" /\ book.at = "outer"
  /\ book' = BookOuterStep(book)
  /\ UNCHANGED <<pc, earlierVars, statusVars, loopVars, tourVars>>

BookAdd ==
  /\ pc = "book" /\ book.at = "add"
  /\ book' = BookAddStep(book)
  /\ UNCHANGED <<pc, earlierVars, statusVars, loopVars, tourVars>>

BookCompute ==
  /\ pc = "book" /\ book.at = "compute"
  /\ book' = BookComputeStep(book)
  /\ UNCHANGED <<pc, earlierVars, statusVars, loopVars, tourVars>>

BookRead ==
  /\ pc = "book" /\ book.at = "read"
  /\ book' = BookReadStep(book)
  /\ UNCHANGED <<pc, earlierVars, statusVars, loopVars, tourVars>>

NextBook == BookOuter \/ BookAdd \/ BookCompute \/ BookRead

SpecBook == InitBook /\ [][NextBook]_vars

-----------------------------------------------------------------------------
(* Properties of the transform selector. *)

Chosen == pc = "chosen"
NoCastle == no_legal_castle(board.castlings)
OurKing == board.kings \cap board.ours
CanonicalQuadrant == MaskOf(<<0, 0, 0, 0, \hF0, \hF0, \hF0, \hF0>>)
CanonicalTriangle == MaskOf(<<0, 0, 0, 0, \h10, \h30, \h70, \hF0>>)

\* C1: on every board with at least one castling right ChooseTransform
\* returns 0, wherever the kings, the pawns and the other pieces stand.
C1_CastlingGivesZero ==
  (Chosen /\ ~NoCastle) => transform = 0

\* A board with a castling right whose king stands in the left half and
\* in the top half: without the right the selector would flip it.
C1_Witness ==
  /\ Chosen /\ ~NoCastle /\ transform = 0
  /\ OurKing \cap LeftHalf # {} /\ OurKing \cap TopHalf # {}
  /\ board.pawns # {}

\* C2: without castling rights and pawns, and with one side-to-move king,
\* the chosen transform takes the king to a single square of the canonical
\* quadrant 0xF0F0F0F0 outside its off-diagonal triangle 0xE0C08000.
C2_KingInCanonicalTriangle ==
  (Chosen /\ NoCastle /\ board.pawns = {} /\ Cardinality(OurKing) = 1)
    => LET k == ApplyTransform(OurKing, transform)
       IN  /\ Cardinality(k) = 1
           /\ k \subseteq CanonicalQuadrant
           /\ k \cap OffDiagonalTriangle = {}
           /\ k \subseteq CanonicalTriangle

\* A king that needs all three steps: left half, top half, then transpose.
C2_Witness ==
  /\ Chosen /\ NoCastle /\ board.pawns = {} /\ Cardinality(OurKing) = 1
  /\ transform = 7
  /\ ApplyTransform(OurKing, transform) \subseteq CanonicalTriangle

\* C3: without castling rights and with a pawn on the board the result is
\* 0 or 1, and it is 1 exactly when the side-to-move king mask meets the
\* half-board mask 0x0F0F0F0F0F0F0F0F.
C3_PawnsAllowOnlyBit0 ==
  (Chosen /\ NoCastle /\ board.pawns # {})
    => /\ transform \in {0, 1}
       /\ (transform = 1) <=> (OurKing \cap LeftHalf # {})

\* A pawn board whose king stands in the top left: only bit0 is set.
C3_Witness ==
  /\ Chosen /\ NoCastle /\ board.pawns # {}
  /\ OurKing \cap LeftHalf # {} /\ OurKing \cap TopHalf # {}
  /\ transform = 1

\* The masks of the canonical-minimality property: the full occupancy, the
\* kings and every piece type.
MinimalityMasks ==
  {board.ours \cup board.theirs, board.kings, board.queens, board.rooks,
   board.knights, board.bishops, board.pawns}

\* C4 as stated: without castling rights and pawns, the chosen transform
\* takes the occupancy mask, the kings mask and every piece-type mask to a
\* value that is at most the untransformed value.
C4_Original ==
  (Chosen /\ NoCastle /\ board.pawns = {})
    => \A m \in MinimalityMasks : LessEq64(ApplyTransform(m, transform), m)

\* s is lexicographically at most t, element by element as 64-bit values.
RECURSIVE LexLessEq(_, _)
LexLessEq(s, t) ==
  \/ s = <<>>
  \/ Less64(Head(s), Head(t))
  \/ Head(s) = Head(t) /\ LexLessEq(Tail(s), Tail(t))

Transformed(masks, t) == [i \in DOMAIN masks |-> ApplyTransform(masks[i], t)]

ToggleTranspose(t) == IF t >= 4 THEN t - 4 ELSE t + 4

\* The side-to-move king, after the bit0 and bit1 steps, on the diagonal.
KingOnDiagonal ==
  /\ Cardinality(OurKing) = 1
  /\ ApplyTransform(OurKing, transform % 4) \subseteq QuadrantDiagonal

\* C4 as amended: without castling rights and pawns and with the adjusted
\* king on the quadrant diagonal, the masks (occupancy, own occupancy,
\* kings, queens, rooks, knights, bishops) under the chosen transform are
\* lexicographically at most the same masks under the chosen transform
\* with the transpose bit toggled; so is the occupancy mask on its own.
C4_MinimalAgainstTranspose ==
  (Chosen /\ NoCastle /\ board.pawns = {} /\ KingOnDiagonal)
    => /\ LexLessEq(Transformed(TieBreakMasks(board), transform),
                    Transformed(TieBreakMasks(board),
                                ToggleTranspose(transform)))
       /\ LessEq64(ApplyTransform(board.ours \cup board.theirs, transform),
                   ApplyTransform(board.ours \cup board.theirs,
                                  ToggleTranspose(transform)))

\* A diagonal king whose tie is broken by a mask after the occupancy, in
\* favour of the transpose.
C4_Witness ==
  /\ Chosen /\ NoCastle /\ board.pawns = {} /\ KingOnDiagonal
  /\ transform >= 4
  /\ CompareTransposing(board.ours \cup board.theirs, transform % 4) = 0
  /\ CompareTransposing(board.ours, transform % 4) = 0

\* The seven masks in the order combined occupancy, own occupancy, kings,
\* queens, rooks, knights, bishops, after the bit0 and bit1 steps of the
\* chosen transform.
PriorityOrder ==
  <<board.ours \cup board.theirs, board.ours, board.kings, board.queens,
    board.rooks, board.knights, board.bishops>>
Adjusted == Transformed(PriorityOrder, transform % 4)
DiffersFromTranspose(i) == Adjusted[i] # TransposeBitsInBytes(Adjusted[i])

\* The first mask, in the order of the comparison, that differs from its
\* transpose: a set with that index, empty when all seven are symmetric.
FirstDiffering ==
  {i \in DOMAIN Adjusted :
     /\ DiffersFromTranspose(i)
     /\ \A j \in 1..(i - 1) : ~DiffersFromTranspose(j)}

\* C20: with the adjusted king on the quadrant diagonal (no castling, no
\* pawns), bit2 is set if and only if the first of the masks combined
\* occupancy, own occupancy, kings, queens, rooks, knights, bishops that
\* differs from its transpose is greater than that transpose; bit2 is clear
\* when none of them differs.
C20_FirstDifferingMaskDecides ==
  (Chosen /\ NoCastle /\ board.pawns = {} /\ KingOnDiagonal)
    => /\ transform >= 4 <=>
            \E i \in FirstDiffering :
              Less64(TransposeBitsInBytes(Adjusted[i]), Adjusted[i])
       /\ FirstDiffering = {} => transform < 4

\* A diagonal king on a board symmetric in the occupancy, the own
\* occupancy and the kings: the queens decide, for the transpose.
C20_Witness ==
  /\ Chosen /\ NoCastle /\ board.pawns = {} /\ KingOnDiagonal
  /\ FirstDiffering = {4}
  /\ transform >= 4

-----------------------------------------------------------------------------
(* Properties of DriftCorrect. *)

Drifted == pc = "drifted"

\* C10 as stated: after DriftCorrect q lies in [-1, 1], d in [0, 1], the
\* implied probabilities w = (1 - d + q) / 2 and l = w - q are both
\* non-negative, and q is the clamp of the q passed in.
C10_Original ==
  Drifted =>
    /\ -One <= drift.q /\ drift.q <= One
    /\ 0 <= drift.d /\ drift.d <= One
    /\ ImpliedW(drift.q, drift.d) >= 0
    /\ ImpliedL(drift.q, drift.d) >= 0
    /\ drift.q = ClampQ(drift.q_in)

\* C10 as amended: after DriftCorrect q lies in [-1, 1], d in [0, 1], q is
\* the clamp of the q passed in, and the implied probabilities w and l are
\* non-negative up to rounding: computed in float or exactly, each is at
\* least minus half the spacing of the floats at 1.0.
C10_NonNegativeUpToRounding ==
  Drifted =>
    /\ -One <= drift.q /\ drift.q <= One
    /\ 0 <= drift.d /\ drift.d <= One
    /\ drift.q = ClampQ(drift.q_in)
    /\ 2 * ImpliedW(drift.q, drift.d) >= -Ulp1
    /\ 2 * ImpliedL(drift.q, drift.d) >= -Ulp1
    /\ One - drift.d + drift.q >= -Ulp1
    /\ One - drift.d - drift.q >= -Ulp1

\* The pair q = 0.875, d = 0.9375 implies a negative l: d is reduced, q is
\* left alone and the l implied afterwards is not negative.
C10_Witness ==
  /\ Drifted /\ drift.repaired
  /\ 8 * drift.q_in = 7 * One /\ 16 * drift.d_in = 15 * One
  /\ ImpliedL(drift.q_in, drift.d_in) < 0
  /\ drift.q = drift.q_in /\ drift.d < drift.d_in
  /\ ImpliedL(drift.q, drift.d) >= 0

-----------------------------------------------------------------------------
(* Properties of the record and of the game session. *)

\* C6: the packed record takes 888 + 16 = 904 bytes, every field starts
\* where the field before it ends, and every record ReadChunk delivers is
\* that many bytes, starting at a multiple of that size in the stream.
C6_RecordSize ==
  /\ SizeOfV6TrainingData = 888 + 16
  /\ SizeOfV6TrainingData = 904
  /\ FieldOffset(V6TrainingDataFields, 1) = 0
  /\ \A i \in 2..Len(V6TrainingDataFields) :
       FieldOffset(V6TrainingDataFields, i)
         = FieldEnd(V6TrainingDataFields, i - 1)
  /\ FieldEnd(V6TrainingDataFields, Len(V6TrainingDataFields))
       = SizeOfV6TrainingData
  /\ \A i \in DOMAIN reader.reads :
       reader.reads[i].ok =>
         /\ reader.reads[i].size = 904
         /\ reader.reads[i].start = 904 * (i - 1)

\* Three records delivered, the third from byte 1808 on, and the end of the
\* stream seen after them.
C6_Witness ==
  /\ Len(reader.reads) = 4
  /\ reader.reads[3].ok /\ reader.reads[3].start = 1808
  /\ ~reader.reads[4].ok
  /\ reader.pos = reader.bytes

\* C9: once Write has been called on a session on which Add was called k
\* times, the writer has been handed k records, one per recorded position
\* in recording order, and none when k = 0.
C9_WriteHandsOnePerAdd ==
  session.write_calls > 0 =>
    /\ Len(session.written) = Len(session.adds)
    /\ \A i \in DOMAIN session.adds :
         session.written[i] = session.adds[i]

-----------------------------------------------------------------------------
(* Properties of the position encoder. *)

Encoded == pc = "encoded"

\* C5: with an input-format tag other than the three supported ones the
\* encoder throws, whatever the history, the fill policy and the depth: no
\* plane array is returned and the caller's transform output is not written.
C5_UnsupportedFormatThrows ==
  (Encoded /\ enc.input_format \notin SupportedFormats) =>
    /\ enc.result.threw
    /\ enc.result.planes = <<>>
    /\ ~enc.result.out_written

\* An unsupported tag above the supported ones, a history of three positions
\* and filling switched on: the call threw.
C5_Witness ==
  /\ Encoded
  /\ enc.input_format = INPUT_112_WITH_CANONICALIZATION + 1
  /\ Len(enc.history) = 3
  /\ enc.fill_empty_history = "ALWAYS"
  /\ enc.history_planes = kMoveHistory
  /\ enc.result.threw

-----------------------------------------------------------------------------
(* Properties of the rescoring path. *)

\* The Input Plane Array produced for the position of game i of the file.
PlanesOfGame(i) ==
  EncodePositionForNN(INPUT_CLASSICAL_112_PLANE,
                      rescore.file.games[i].history, 8, "NO").planes

\* C7: plane word i of every record written is the byte-internal bit
\* reversal of mask i of the plane array encoded for that position, for i in
\* 0..109; the copy stays inside the 112 planes; reversing twice gives the
\* mask back.
C7_RecordPlanesAreMirrored ==
  \A r \in DOMAIN rescore.written :
    LET P == PlanesOfGame(r)
        words == rescore.written[r].planes
    IN  /\ Len(P) = 112
        /\ Len(words) = 110
        /\ Len(words) <= Len(P)
        /\ \A i \in 0..109 :
             /\ words[i + 1] = ReverseBitsInBytes(P[i + 1])
             /\ ReverseBitsInBytes(ReverseBitsInBytes(P[i + 1])) = P[i + 1]

\* Two records were written, the second for a history of three positions;
\* a plane of it is neither empty nor full and differs from its mirror.
C7_Witness ==
  /\ pc = "rescored"
  /\ Len(rescore.written) = 2
  /\ Len(rescore.file.games[2].history) = 3
  /\ \E i \in 0..109 :
       LET m == PlanesOfGame(2)[i + 1]
       IN  m # {} /\ m # AllOnes /\ ReverseBitsInBytes(m) # m

\* C8: decoding a record written from a plane array P by bit reversal gives
\* a plane array whose mask i is P's mask i, for every stored plane i.
C8_DecodeUndoesMirror ==
  pc = "decoded" =>
    LET P == PlanesOfGame(rescore.decoded_of)
    IN  \A i \in 0..(NumPlaneWords - 1) :
          /\ i + 1 \in DOMAIN rescore.decoded
          /\ rescore.decoded[i + 1] = P[i + 1]

-----------------------------------------------------------------------------
(* Properties of the reader. *)

\* The number of whole records of the stream and the bytes left after them.
WholeRecords == reader.bytes \div SizeOfV6TrainingData
Leftover == reader.bytes % SizeOfV6TrainingData

\* C11: on a readable stream of k whole records and r leftover bytes the
\* calls of ReadChunk return true for the first k of them, each delivering
\* the next record of the stream, and false for every later one; a call
\* that got fewer bytes than one record never returns true.
C11_TrueExactlyPerWholeRecord ==
  ~reader.damaged =>
    /\ ~reader.threw
    /\ \A i \in DOMAIN reader.reads :
         /\ reader.reads[i].ok <=> i <= WholeRecords
         /\ reader.reads[i].ok =>
              /\ reader.reads[i].start = (i - 1) * SizeOfV6TrainingData
              /\ reader.reads[i].size = SizeOfV6TrainingData
         /\ reader.reads[i].size < SizeOfV6TrainingData => ~reader.reads[i].ok

\* Two whole records and a tail: two calls returned true, the third got the
\* tail and returned false, the fourth got nothing and returned false.
C11_Witness ==
  /\ ~reader.damaged /\ WholeRecords = 2 /\ Leftover > 0
  /\ Len(reader.reads) = 4
  /\ reader.reads[1].ok /\ reader.reads[2].ok
  /\ ~reader.reads[3].ok /\ reader.reads[3].size = Leftover
  /\ ~reader.reads[4].ok /\ reader.reads[4].size = 0

\* C12: a call of ReadChunk that finds a positive number of bytes smaller
\* than one record fails with an exception instead of returning false.
C12_TruncatedStreamThrows ==
  \A i \in DOMAIN reader.reads :
    (0 < reader.reads[i].size /\ reader.reads[i].size < SizeOfV6TrainingData)
      => reader.threw

-----------------------------------------------------------------------------
(* Properties of the tournament status line. *)

Sent == pc = "sent"
Line == status.sent[1]
Wins == status.info.results[1][1] + status.info.results[1][2]
Draws == status.info.results[2][1] + status.info.results[2][2]
Losses == status.info.results[3][1] + status.info.results[3][2]
Counted == Wins + Draws + Losses

\* C18: the status line shows the win percentage (draws/2 + wins)/total
\* exactly when the total of the counted games is greater than 0.
C18_WinShownIffCounted ==
  Sent =>
    /\ Line.win_shown <=> Counted > 0
    /\ Line.win_shown =>
         Line.percentage.num * 2 * Counted
           = (Draws + 2 * Wins) * Line.percentage.den

-----------------------------------------------------------------------------
(* Properties of the rescore loop. *)

\* C17: a failure while one file is processed stays inside that file: the
\* process is not terminated, and when the threads are joined every file
\* has been visited, the failing ones included.
C17_FailureIsContained ==
  /\ ~loop.terminated
  /\ pc = "looped" =>
       loop.processed \cup loop.skipped \cup loop.caught
         = 0..(Len(loop.files) - 1)

\* The threads whose loop reached file i.
VisitorsOf(i) == {offset \in DOMAIN loop.next : <<i, offset>> \in loop.visits}

\* C25: a file is visited only by the thread whose offset is its index
\* modulo the number of threads, no output file has writers of two threads,
\* the totals are printed only when every thread has left its loop and is
\* joined, and when the run is over every file has been visited by exactly
\* one thread.
C25_EveryFileByOneThread ==
  pc \in {"loop", "looped"} =>
    /\ \A v \in loop.visits : v[2] = v[1] % loop.threads
    /\ \A v, w \in loop.writers : v[1] = w[1] => v[2] = w[2]
    /\ pc = "looped" =>
         \A offset \in DOMAIN loop.next :
            loop.next[offset] >= Len(loop.files)
    /\ (pc = "looped" \/ loop.terminated) =>
         \A i \in 0..(Len(loop.files) - 1) : Cardinality(VisitorsOf(i)) = 1

-----------------------------------------------------------------------------
(* Properties of the tournament. *)

RunBlockingReturned == pc = "tour" /\ tour.at["run"] = "done"

\* C13: a tournament of N games with more than one worker and no stop
\* request ends with finished=true reported once, the games counted in
\* its statistics summing to N and every game index claimed once.
C13_AllGamesCountedOnce ==
  (RunBlockingReturned /\ tour.kParallelism > 1 /\ ~tour.abort_
     /\ tour.direct_starts = 0 /\ tour.direct_waits = 0)
    => /\ tour.tournament_info_.finished
       /\ tour.reports = 1
       /\ tour.tournament_info_.games = tour.kTotalGames
       /\ tour.claimed = 0..(tour.kTotalGames - 1)

\* C14: once the abort flag is set it stays set, and no later step reports
\* finished=true: the number of reports and the finished field stay as they
\* were when Stop or Abort set the flag.
C14_NoReportAfterAbort ==
  [][(pc = "tour" /\ tour.abort_)
       => /\ tour'.abort_
          /\ tour'.reports = tour.reports
          /\ tour'.tournament_info_.finished = tour.tournament_info_.finished
    ]_vars

\* CmdStop was issued while both workers were in the roster; its Wait and
\* the Wait of RunBlocking have returned and nothing was reported.
C14_Witness ==
  /\ RunBlockingReturned /\ tour.at["uci"] = "ready"
  /\ tour.stops = 1 /\ tour.abort_
  /\ tour.kParallelism = 2
  /\ \A id \in DOMAIN tour.worker : tour.worker[id] = "joined"
  /\ Len(tour.worker) = 2
  /\ tour.reports = 0 /\ ~tour.tournament_info_.finished

\* C15: whenever Wait returns, every worker thread StartAsync started has
\* been joined and removed from the roster.
C15_WaitReturnsAfterDrain ==
  (pc = "tour" /\ tour.direct_starts = 0 /\ tour.direct_waits = 0)
    => ~tour.returned_undrained

\* C16: the roster never holds more than kParallelism threads, also after
\* repeated calls of StartAsync; with a parallelism of 1 RunBlocking runs
\* the worker on the calling thread and starts none, so that the roster
\* stays empty.
C16_RosterWithinParallelism ==
  pc = "tour" =>
    /\ Len(tour.threads_) <= tour.kParallelism
    /\ (tour.kParallelism = 1 /\ tour.direct_starts = 0) =>
         /\ tour.threads_ = <<>> /\ tour.worker = <<>>
         /\ tour.at["run"] # "StartAsync"
         /\ tour.at["run"] \in {"Wait", "drain", "report"} =>
              tour.ret["run"] = "destroyed"
         /\ RunBlockingReturned => tour.inline_workers = 1
    /\ tour.kParallelism > 1 => tour.inline_workers = 0

\* StartAsync was called twice on a tournament of parallelism 2, the second
\* time on a full roster: two threads were started in all.
C16_Witness ==
  /\ pc = "tour" /\ tour.kParallelism = 2
  /\ tour.direct_starts = 1 /\ tour.at["run"] = "Wait"
  /\ Len(tour.threads_) = 2 /\ Len(tour.worker) = 2

-----------------------------------------------------------------------------
(* Properties of the history walk of the encoder. *)

Returned == Encoded /\ ~enc.result.threw

\* Slot i of the returned array has a mask that is not zero.  Every board
\* holds two kings, so a slot the walk wrote is one of these.
SlotPopulated(i) ==
  \E j \in 0..(kPlanesPerBoard - 1) :
     MaskAt(enc.result.planes, i * kPlanesPerBoard + j) # {}

\* The slots within the requested depth that lie before the first recorded
\* position.
MissingSlots ==
  {i \in 0..(kMoveHistory - 1) :
     i >= Len(enc.history) /\ i < enc.history_planes}

FirstIsStartpos == GetBoard(enc.history[1]) = kStartposBoard

\* C21 as stated: under FEN_ONLY a slot before the first recorded position
\* is populated exactly when the board it would hold is the canonical
\* starting position; under NO it is never populated.
C21_Original ==
  Returned =>
    \A i \in MissingSlots :
       /\ enc.fill_empty_history = "FEN_ONLY" =>
            (SlotPopulated(i) <=> FirstIsStartpos)
       /\ enc.fill_empty_history = "NO" => ~SlotPopulated(i)

\* C21 amended: under FEN_ONLY a slot before the first recorded position is
\* populated only when the first recorded position is not the canonical
\* starting position, and outside the canonical format it is populated
\* whenever that position is not the starting position; under NO it is
\* never populated.
C21_FenOnlyFillsUnlessStartpos ==
  Returned =>
    \A i \in MissingSlots :
       /\ enc.fill_empty_history = "FEN_ONLY" =>
            /\ SlotPopulated(i) => ~FirstIsStartpos
            /\ (enc.input_format # INPUT_112_WITH_CANONICALIZATION
                  /\ ~FirstIsStartpos) => SlotPopulated(i)
       /\ enc.fill_empty_history = "NO" => ~SlotPopulated(i)

\* One rook ending, three slots asked for under FEN_ONLY: the two missing
\* slots were filled.
C21_Witness ==
  /\ Returned
  /\ enc.fill_empty_history = "FEN_ONLY"
  /\ enc.input_format = INPUT_CLASSICAL_112_PLANE
  /\ Len(enc.history) = 1 /\ enc.history_planes = 3
  /\ ~FirstIsStartpos
  /\ SlotPopulated(1) /\ SlotPopulated(2)

\* The position slot i is taken from, and the board the walk reads there:
\* the positions are walked backward from the last one, the first one
\* standing in for those before it, and the board alternates between the
\* position's own view and the opponent's down to the first position.
SlotPosition(i) ==
  LET history_idx == Len(enc.history) - 1 - i
  IN  enc.history[(IF history_idx < 0 THEN 0 ELSE history_idx) + 1]

SlotBoard(i) ==
  IF Min(i, Len(enc.history) - 1) % 2 = 1
  THEN GetThemBoard(SlotPosition(i)) ELSE GetBoard(SlotPosition(i))

Canonical == Returned /\ enc.input_format = INPUT_112_WITH_CANONICALIZATION

\* C22: in the canonical format every populated slot has the castling
\* rights of the current position (both seen from the side to move now),
\* every populated slot but the current position's has no en-passant
\* target, and no slot is populated after one whose position has a
\* no-progress counter of 0.
C22_CanonicalWalkStopsEarly ==
  Canonical =>
    \A i \in 0..(kMoveHistory - 1) :
       SlotPopulated(i) =>
         /\ SlotBoard(i).castlings
              = GetBoard(enc.history[Len(enc.history)]).castlings
         /\ i # 0 => SlotBoard(i).en_passant = {}
         /\ \A k \in 0..(i - 1) :
              GetNoCaptureNoPawnPly(SlotPosition(k)) # 0

\* Three positions, the oldest with an en-passant target and the two later
\* ones with the same castling rights: the walk filled
\* the slots of the two later ones and stopped at the third.
C22_Witness ==
  /\ Canonical
  /\ Len(enc.history) = 3 /\ enc.history_planes >= 3
  /\ SlotBoard(2).en_passant # {}
  /\ ~no_legal_castle(SlotBoard(1).castlings)
  /\ SlotPopulated(0) /\ SlotPopulated(1) /\ ~SlotPopulated(2)

\* C23: for a supported format the encoder returns 112 planes; the slots
\* populated are the first n of the eight, with n at most the smaller of
\* the requested depth and 8, and every plane of the slots from n on is
\* zero; plane 110 is zero and plane 111 is all ones.
C23_PopulatedPrefixAndTrailer ==
  Returned =>
    /\ Len(enc.result.planes) = 112
    /\ enc.result.populated <= Min(enc.history_planes, 8)
    /\ \A i \in 0..(kMoveHistory - 1) :
         SlotPopulated(i) <=> i < enc.result.populated
    /\ MaskAt(enc.result.planes, 110) = {}
    /\ MaskAt(enc.result.planes, 111) = AllOnes

\* Nine slots were asked for on a history of two positions, filled without
\* condition: all eight slots are populated.
C23_Witness ==
  /\ Returned
  /\ enc.history_planes = kMoveHistory + 1
  /\ enc.fill_empty_history = "ALWAYS"
  /\ Len(enc.history) = 2
  /\ \A i \in 0..(kMoveHistory - 1) : SlotPopulated(i)

-----------------------------------------------------------------------------
(* Properties of the screening of the opening book. *)

\* The undecided openings from i, where a batch starts, to below j.
UndecidedBefore(i, j) == {x \in i..(j - 1) : Undecided(book, x)}

\* C24: the openings are handled in ascending order, each once and in one
\* batch; no computation is given more than 320 inputs; an undecided
\* opening is read from the slot that holds its own planes, which is the
\* number of undecided openings before it in its batch, and a decided
\* opening takes no slot.  Stated of the opening handled last in each
\* state, so of every opening in turn.
C24_OpeningsBatchedAndReadBack ==
  pc = "book" =>
    /\ Len(book.inputs) <= 320
    /\ book.added > 0 =>
         /\ book.last_added.j = book.added - 1
         /\ book.last_added.batch = (book.last_added.j \div 320) + 1
    /\ book.printed > 0 =>
         /\ book.last_printed.j = book.printed - 1
         /\ book.last_printed.batch = (book.last_printed.j \div 320) + 1
         /\ ~book.last_printed.decided =>
              /\ book.last_printed.input = book.last_printed.j
              /\ book.last_printed.slot
                   = Cardinality(UndecidedBefore(
                       (book.last_printed.batch - 1) * 320,
                       book.last_printed.j))
    /\ \A k \in DOMAIN book.inputs : Undecided(book, book.inputs[k])
    /\ book.at = "done" =>
         /\ book.added = book.openings
         /\ book.printed = book.openings

\* A book of 641 openings with every other one decided: the constructor is
\* through, after three computations, and the last opening read was an
\* undecided one.
C24_Witness ==
  /\ pc = "book" /\ book.at = "done"
  /\ book.openings = 2 * kBatchWidth + 1
  /\ book.pattern.period = 2
  /\ book.computations = 3
  /\ book.printed = book.openings

\* C26: over every interleaving of RunBlocking, StartAsync, Wait, Stop,
\* Abort and the destructor, Wait called again included, the callback is
\* invoked with finished=true at most once.
C26_FinishedAtMostOnce == pc = "tour" => tour.reports <= 1

====
